---- MODULE Spec2Model ----
(***************************************************************************)
(* State-machine model of the two scripts of asetk:                        *)
(*   scripts/sts.py       scanning tunnelling spectroscopy (STS) cube      *)
(*   scripts/stm-plot.py  STM image extraction and plotting                *)
(*                                                                         *)
(* Numbers.  Energies and biases are Python floats; here they are integers *)
(* (whole volts), so "+", "-", "*" and the comparisons of the source are   *)
(* exact.  Arrays are 0-based in numpy and 1-based in TLA+: a numpy index  *)
(* i is kept as the number i and turned into the sequence position i + 1   *)
(* only where a sequence is read or written.                               *)
(*                                                                         *)
(* A plane is kept symbolically as [cube, pow]: the plane of cube file     *)
(* number `cube`, taken from the raw data (pow = 1) or from its square     *)
(* (pow = 2).  A bin of the spectral volume is a bag of terms              *)
(* [plane, x2]: the sum over the bag of plane * gaussian(x), x*x = x2.     *)
(***************************************************************************)
EXTENDS Integers, Sequences, FiniteSets, Bags, TLC

\* ---------------------------------------------------------------- bounds
\* Most levels in the spectrum (over all spin channels).
MaxLevels == 2
\* Most cube files on the sts.py command line.
MaxCubes == 2
\* Most cube files on the stm-plot.py command line.
MaxStmCubes == 2
\* Most values given to --replicate.
MaxReplicate == 3

\* Level energies (after the shift of the zero reference, sts.py 97-103).
Energies == {-4, -3, -1}
\* (band index, spin) tags read from the cube headers.
Headers ==
    {[wfn |-> 0, spin |-> 1], [wfn |-> 1, spin |-> 1], [wfn |-> 0, spin |-> 2]}
\* Command lines of sts.py.
StsArgs ==
    [emin : {-2}, emax : {-2, 2}, de : {1}, sigma : {1}, nsigmacut : {1},
     psisquared : BOOLEAN, normalize : BOOLEAN]
\* Command lines of stm-plot.py.
ReplicaValues == {1, 2}
Formats == {"plain", "igor", "hdf"}

VARIABLES
    script,          \* which script runs: "sts" or "stm"
    pc,              \* position of the script
    error,           \* the uncaught exception that ended the run ("" if none)
    messages,        \* what was printed, in order
    outfiles,        \* names of the files written by write_cube_file/savetxt/...
    \* ---- sts.py
    args,            \* parsed command line (sts.py 88)
    levels,          \* spectrum.energylevels: per spin channel, the energies
    files,           \* args.cubes: per cube file, its header tags
    planefiles,      \* the planes saved on disk as "<cube>.dz<dz>"
    run,             \* 1: first run of sts.py, 2: second run on the same inputs
    prev,            \* what the first run left: [looped, data]
    cubes,           \* list of cube headers (sts.py 106-112)
    m,               \* position in the level loop (sts.py 116-117)
    required_cubes,  \* sts.py 115
    stscube,         \* the spectral volume (sts.py 142-151)
    zrange,          \* sts.py 153
    k,               \* position in required_cubes (sts.py 159)
    tmp,             \* sts.py 170 (tmp.def = FALSE: the name is unbound)
    plane,           \* sts.py 166 / 175
    heap,            \* the objects that hold the full 3D data of a cube file
    fullreads,       \* cube files read with read_data=True in this run
    \* ---- stm-plot.py
    margs,           \* parsed command line (stm-plot.py 104)
    replicate,       \* args.replicate, which stm-plot.py 118 rewrites
    jobs,            \* stm-plot.py 107
    fi,              \* position in args.stmcubes (stm-plot.py 124)
    ji,              \* position in jobs (stm-plot.py 128)
    cubereads,       \* number of Cube.from_file calls
    replicas         \* the replica/rep arguments handed on, in order

stsvars == <<args, levels, files, planefiles, run, prev, cubes, m,
             required_cubes, stscube, zrange, k, tmp, plane, heap, fullreads>>
stmvars == <<margs, replicate, jobs, fi, ji, cubereads, replicas>>
vars == <<script, pc, error, messages, outfiles, stsvars, stmvars>>

\* ---------------------------------------------------------------- helpers
Range(s) == {s[i] : i \in DOMAIN s}

Abs(x) == IF x < 0 THEN -x ELSE x

\* Python's int() of a quotient of two numbers: truncation towards zero.
PyInt(num, den) ==
    IF (num >= 0) = (den > 0) THEN Abs(num) \div Abs(den)
    ELSE -(Abs(num) \div Abs(den))

Msg(kind, spin, energy) == [kind |-> kind, spin |-> spin, energy |-> energy]


\* ================================================================= sts.py

\* A value of args.replicate of stm-plot.py: None, a list of integers
\* (vals), or the list [vals, vals] of two references to one list (nested).
PyNone == [none |-> TRUE, nested |-> FALSE, vals |-> <<>>]
PyList(v) == [none |-> FALSE, nested |-> FALSE, vals |-> v]
PyListOfLists(v) == [none |-> FALSE, nested |-> TRUE, vals |-> v]

\* Values of names that are not bound yet.
NoTmp == [def |-> FALSE, cube |-> 0, energy |-> 0]
NoPlane == [cube |-> 0, pow |-> 0]
NoCube == [def |-> FALSE, data |-> <<>>, origin2 |-> 0, norm |-> FALSE]
NoPrev == [looped |-> FALSE, data |-> <<>>]
NoArgs ==
    [emin |-> 0, emax |-> 0, de |-> 1, sigma |-> 1, nsigmacut |-> 0,
     psisquared |-> FALSE, normalize |-> FALSE]

\* Energies of one spin channel, non-decreasing, n of them.
SortedLevels(n) ==
    {s \in [1..n -> Energies] : \A i \in 1..(n - 1) : s[i] <= s[i + 1]}

RECURSIVE TotalLen(_, _)
TotalLen(lv, s) == IF s > Len(lv) THEN 0 ELSE Len(lv[s]) + TotalLen(lv, s + 1)

\* The spectra: one or two spin channels (spin 0, spin 1).
Spectra ==
    {lv \in UNION {[1..ns -> UNION {SortedLevels(n) : n \in 0..MaxLevels}]
                       : ns \in 1..2}
        : TotalLen(lv, 1) <= MaxLevels}

\* The cube files of the command line, by their header tags (nargs='+').
CubeLists == UNION {[1..n -> Headers] : n \in 1..MaxCubes}

\* The plane a run extracts from cube file c: from the raw data when the
\* cube holds psi squared, from its square otherwise (sts.py 172-175).
ExtractedPlane(c, a) == [cube |-> c, pow |-> IF a.psisquared THEN 1 ELSE 2]

\* The levels in the order in which the loops of sts.py 116-117 visit them,
\* each with its spin channel and its index in the channel (both 0-based).
RECURSIVE LevelsFrom(_, _)
LevelsFrom(lv, s) ==
    IF s > Len(lv) THEN <<>>
    ELSE [i \in 1..Len(lv[s]) |->
             [spin |-> s - 1, index |-> i - 1, energy |-> lv[s][i]]]
         \o LevelsFrom(lv, s + 1)

LevelOrder == LevelsFrom(levels, 1)

\* InWindow with the lower end of the window left out.
InWindowOpenBelow(e) ==
    /\ e > args.emin - args.sigma * args.nsigmacut
    /\ e <= args.emax + args.sigma * args.nsigmacut

\* sts.py 121-122
InWindow(e) ==
    /\ e >= args.emin - args.sigma * args.nsigmacut
    /\ e <= args.emax + args.sigma * args.nsigmacut

\* sts.py 127
CubeMatches(cube, index, spin) == cube.wfn = index /\ cube.spin = spin + 1

\* sts.py 125-135: the first cube of the list that matches, 0 if none does.
FirstMatch(index, spin) ==
    LET hits == {c \in 1..Len(cubes) : CubeMatches(cubes[c], index, spin)}
    IN  IF hits = {} THEN 0
        ELSE CHOOSE c \in hits : \A d \in hits : c <= d

\* sts.py 90-91: gaussian(x) is kept as the square of its argument, which
\* decides its value for the sigma of the run.
gaussian(x) == x * x

\* numpy: (np.abs(a - x)).argmin(), the first index of the smallest entry.
ArgMinAbs(a, x) ==
    LET best == CHOOSE j \in 1..Len(a) :
                    /\ \A i \in 1..Len(a) : Abs(a[j] - x) <= Abs(a[i] - x)
                    /\ \A i \in 1..(j - 1) : Abs(a[i] - x) > Abs(a[j] - x)
    IN  best - 1

\* ReleaseTmp for a script that keeps every cube object it has read.
KeepTmp(h) == h

\* sts.py 170: rebinding tmp drops the last reference to the cube object it
\* named, and with it that object's data.
ReleaseTmp(h) == {o \in h : o.owner # "tmp"}

\* sts.py 185-186: data with plane * gaussian(energy - zrange[i]) added to
\* the bins lo..hi (numpy indices).
AddPlane(data, lo, hi, p, energy) ==
    [i \in 1..Len(data) |->
        IF lo <= i - 1 /\ i - 1 <= hi
        THEN data[i] (+) SetToBag({[plane |-> p,
                                    x2 |-> gaussian(energy - zrange[i])]})
        ELSE data[i]]

StsProgramInit ==
    /\ cubes = <<>>
    /\ m = 1
    /\ required_cubes = <<>>
    /\ stscube = NoCube
    /\ zrange = <<>>
    /\ k = 1
    /\ tmp = NoTmp
    /\ plane = NoPlane
    /\ heap = {}
    /\ fullreads = <<>>

StmIdle ==
    /\ margs = [heights |-> <<>>, isovalues |-> <<>>, stmcubes |-> 0,
                format |-> "plain", plot |-> FALSE, replicate |-> PyNone]
    /\ replicate = PyNone
    /\ jobs = <<>>
    /\ fi = 1
    /\ ji = 1
    /\ cubereads = 0
    /\ replicas = <<>>

InitSts ==
    /\ script = "sts"
    /\ pc = "headers"
    /\ error = ""
    /\ messages = <<>>
    /\ outfiles = {}
    /\ args \in StsArgs
    /\ levels \in Spectra
    /\ files \in CubeLists
    /\ \E cached \in SUBSET (1..Len(files)) :
           planefiles = {ExtractedPlane(c, args) : c \in cached}
    /\ run = 1
    /\ prev = NoPrev
    /\ StsProgramInit
    /\ StmIdle

\* sts.py 105-112
ReadHeaders ==
    /\ script = "sts" /\ pc = "headers"
    /\ cubes' = [c \in 1..Len(files) |->
                    [filename |-> c, wfn |-> files[c].wfn,
                     spin |-> files[c].spin, energy |-> 0]]
    /\ messages' = Append(messages, Msg("Reading headers", 0, 0))
    /\ pc' = "match"
    /\ UNCHANGED <<script, error, outfiles, args, levels, files, planefiles,
                   run, prev, m, required_cubes, stscube, zrange, k, tmp,
                   plane, heap, fullreads, stmvars>>

\* sts.py 116-138: one pass of the inner loop body, for the level at m.
\* (cube.occupation, set with cube.energy, is read nowhere: line 177.)
MatchLevel ==
    /\ script = "sts" /\ pc = "match" /\ m <= Len(LevelOrder)
    /\ LET l == LevelOrder[m]
           c == FirstMatch(l.index, l.spin)
       IN  IF InWindow(l.energy)
           THEN IF c # 0
                THEN /\ cubes' = [cubes EXCEPT ![c].energy = l.energy]
                     /\ required_cubes' = Append(required_cubes, c)
                     /\ messages' = Append(messages,
                                        Msg("Found", l.spin + 1, l.energy))
                ELSE /\ messages' = Append(messages,
                                        Msg("Missing", l.spin + 1, l.energy))
                     /\ UNCHANGED <<cubes, required_cubes>>
           ELSE UNCHANGED <<cubes, required_cubes, messages>>
    /\ m' = m + 1
    /\ UNCHANGED <<script, pc, error, outfiles, args, levels, files,
                   planefiles, run, prev, stscube, zrange, k, tmp, plane,
                   heap, fullreads, stmvars>>

\* sts.py 140-142: the first required cube is read again, with its data.
LoadTemplate ==
    /\ script = "sts" /\ pc = "match" /\ m > Len(LevelOrder)
    /\ messages' = Append(messages, Msg("Initializing STS cube", 0, 0))
    /\ IF required_cubes = <<>>
       THEN /\ pc' = "crashed"
            /\ error' = "IndexError: required_cubes[0]"
            /\ UNCHANGED <<heap, fullreads>>
       ELSE /\ pc' = "shape"
            /\ heap' = heap \cup {[owner |-> "stscube",
                                   cube |-> required_cubes[1]]}
            /\ fullreads' = Append(fullreads, required_cubes[1])
            /\ UNCHANGED error
    /\ UNCHANGED <<script, outfiles, args, levels, files, planefiles, run,
                   prev, cubes, m, required_cubes, stscube, zrange, k, tmp,
                   plane, stmvars>>

\* sts.py 144-157: the data of the template is replaced by zeros over
\* int((emax - emin) / de) + 1 energy bins, and zrange is np.r_ of the three
\* numbers emin, emax and the number of bins.  (Title and comment are text.)
ShapeStsCube ==
    /\ script = "sts" /\ pc = "shape"
    /\ LET nbins == PyInt(args.emax - args.emin, args.de) + 1
       IN  /\ stscube' = [def |-> TRUE,
                          data |-> [i \in 1..nbins |-> EmptyBag],
                          origin2 |-> args.emin,
                          norm |-> FALSE]
           /\ zrange' = <<args.emin, args.emax, nbins>>
    /\ heap' = {o \in heap : o.owner # "stscube"}
    /\ messages' = Append(messages, Msg("Reading data", 0, 0))
    /\ k' = 1
    /\ pc' = "loop"
    /\ UNCHANGED <<script, error, outfiles, args, levels, files, planefiles,
                   run, prev, cubes, m, required_cubes, tmp, plane,
                   fullreads, stmvars>>

\* sts.py 164-166: the plane file exists and is read.
ReadPlaneFile ==
    /\ script = "sts" /\ pc = "loop" /\ k <= Len(required_cubes)
    /\ \E p \in planefiles :
          /\ p.cube = required_cubes[k]
          /\ plane' = p
    /\ pc' = "accum"
    /\ UNCHANGED <<script, error, messages, outfiles, args, levels, files,
                   planefiles, run, prev, cubes, m, required_cubes, stscube,
                   zrange, k, tmp, heap, fullreads, stmvars>>

\* sts.py 168-170: no plane file; tmp is bound to a copy of the header.
RebindTmp ==
    /\ script = "sts" /\ pc = "loop" /\ k <= Len(required_cubes)
    /\ \A p \in planefiles : p.cube # required_cubes[k]
    /\ tmp' = [def |-> TRUE, cube |-> required_cubes[k],
               energy |-> cubes[required_cubes[k]].energy]
    /\ heap' = ReleaseTmp(heap)
    /\ pc' = "read"
    /\ UNCHANGED <<script, error, messages, outfiles, args, levels, files,
                   planefiles, run, prev, cubes, m, required_cubes, stscube,
                   zrange, k, plane, fullreads, stmvars>>

\* sts.py 171-178: the data is read, the plane extracted and saved.
ReadCubeData ==
    /\ script = "sts" /\ pc = "read"
    /\ heap' = heap \cup {[owner |-> "tmp", cube |-> tmp.cube]}
    /\ fullreads' = Append(fullreads, tmp.cube)
    /\ plane' = ExtractedPlane(tmp.cube, args)
    /\ planefiles' = planefiles \cup {ExtractedPlane(tmp.cube, args)}
    /\ pc' = "accum"
    /\ UNCHANGED <<script, error, messages, outfiles, args, levels, files,
                   run, prev, cubes, m, required_cubes, stscube, zrange, k,
                   tmp, stmvars>>

\* sts.py 180-188: the window of the level and the sum over its bins.
Accumulate ==
    /\ script = "sts" /\ pc = "accum"
    /\ IF ~tmp.def
       THEN /\ pc' = "crashed"
            /\ error' = "NameError: tmp"
            /\ UNCHANGED <<stscube, k>>
       ELSE LET emin == tmp.energy - args.sigma * args.nsigmacut
                emax == tmp.energy + args.sigma * args.nsigmacut
                imin == ArgMinAbs(zrange, emin)
                imax == ArgMinAbs(zrange, emax)
                nbins == Len(stscube.data)
            IN  IF imin <= imax /\ imax >= nbins
                THEN \* numpy: index out of bounds for axis 2, after the
                     \* bins below nbins have been added to
                     /\ stscube' = [stscube EXCEPT !.data =
                           AddPlane(@, imin, nbins - 1, plane, tmp.energy)]
                     /\ pc' = "crashed"
                     /\ error' = "IndexError: stscube.data"
                     /\ UNCHANGED k
                ELSE /\ stscube' = [stscube EXCEPT !.data =
                           AddPlane(@, imin, imax, plane, tmp.energy)]
                     /\ k' = k + 1
                     /\ pc' = "loop"
                     /\ UNCHANGED error
    /\ UNCHANGED <<script, messages, outfiles, args, levels, files,
                   planefiles, run, prev, cubes, m, required_cubes, zrange,
                   tmp, plane, heap, fullreads, stmvars>>

\* sts.py 190-196: nothing reads args.normalize (the division is commented
\* out); the name sts of line 196 is bound nowhere.
WriteCube ==
    /\ script = "sts" /\ pc = "loop" /\ k > Len(required_cubes)
    /\ messages' = Append(messages, Msg("Writing", 0, 0))
    /\ pc' = "crashed"
    /\ error' = "NameError: sts"
    /\ UNCHANGED <<script, outfiles, stsvars, stmvars>>

\* The user starts sts.py again with the same command line and spectrum;
\* the plane files of the first run are on disk.
Rerun ==
    /\ script = "sts" /\ pc = "crashed" /\ run = 1
    /\ run' = 2
    /\ prev' = [looped |-> (error = "NameError: sts"), data |-> stscube.data]
    /\ pc' = "headers"
    /\ error' = ""
    /\ messages' = <<>>
    /\ cubes' = <<>>
    /\ m' = 1
    /\ required_cubes' = <<>>
    /\ stscube' = NoCube
    /\ zrange' = <<>>
    /\ k' = 1
    /\ tmp' = NoTmp
    /\ plane' = NoPlane
    /\ heap' = {}
    /\ fullreads' = <<>>
    /\ UNCHANGED <<script, outfiles, args, levels, files, planefiles,
                   stmvars>>

NextSts ==
    \/ ReadHeaders
    \/ MatchLevel
    \/ LoadTemplate
    \/ ShapeStsCube
    \/ ReadPlaneFile
    \/ RebindTmp
    \/ ReadCubeData
    \/ Accumulate
    \/ WriteCube
    \/ Rerun

\* ============================================================ stm-plot.py

\* The command lines: --heights and --isovalues with no or one value,
\* --stmcubes with 0 (option not given: None) to MaxStmCubes files.
StmArgs ==
    [heights : {<<>>, <<3>>}, isovalues : {<<>>, <<7>>},
     stmcubes : 0..MaxStmCubes, format : Formats, plot : BOOLEAN,
     replicate : {PyNone} \cup
         {PyList(v) : v \in UNION {[1..n -> ReplicaValues]
                                       : n \in 1..MaxReplicate}}]

SysIdle ==
    /\ args = NoArgs
    /\ levels = <<>>
    /\ files = <<>>
    /\ planefiles = {}
    /\ run = 1
    /\ prev = NoPrev
    /\ StsProgramInit

InitStm ==
    /\ script = "stm"
    /\ pc = "jobs"
    /\ error = ""
    /\ messages = <<>>
    /\ outfiles = {}
    /\ margs \in StmArgs
    /\ replicate = margs.replicate
    /\ jobs = <<>>
    /\ fi = 1
    /\ ji = 1
    /\ cubereads = 0
    /\ replicas = <<>>
    /\ SysIdle

\* stm-plot.py 116-121: args.replicate after the check of its length.
NormalizedReplicate(r) ==
    IF r.none THEN r
    ELSE IF Len(r.vals) = 1 THEN PyListOfLists(r.vals)
    ELSE r

\* stm-plot.py 119-121: the length that is reported as invalid.
ReplicateInvalid(r) == ~r.none /\ Len(r.vals) # 1 /\ Len(r.vals) # 2

\* A replication factor the plane extraction is written for: none, or a
\* pair of integers.
PairOfInts(r) == r.none \/ (~r.nested /\ Len(r.vals) = 2)

\* stm-plot.py 13-42: whether resample returns ("ok") or raises.
\*   rep = [[n], [n]]: nx *= rep[0] makes nx a list, range(nx) raises;
\*   three integers: np.tile makes nx*ny*r0*r1*r2 values for the
\*   nx*r0 * ny*r1 positions, which griddata refuses unless r2 = 1.
resample(rep) ==
    IF rep.none \/ rep.vals = <<>> THEN "ok"
    ELSE IF rep.nested THEN "TypeError: resample"
    ELSE IF Len(rep.vals) = 1 THEN "IndexError: resample"
    ELSE IF Len(rep.vals) > 2 /\ \E i \in 3..Len(rep.vals) : rep.vals[i] # 1
         THEN "TypeError: griddata"
    ELSE "ok"

\* stm-plot.py 107-114
MakeJobs ==
    /\ script = "stm" /\ pc = "jobs"
    /\ LET js == [i \in 1..Len(margs.heights) |->
                     [v |-> margs.heights[i], kind |-> "h"]]
                 \o [i \in 1..Len(margs.isovalues) |->
                     [v |-> margs.isovalues[i], kind |-> "i"]]
       IN  /\ jobs' = js
           /\ IF js = <<>>
              THEN /\ messages' = Append(messages, Msg("No jobs", 0, 0))
                   /\ pc' = "done"
              ELSE /\ pc' = "replicate"
                   /\ UNCHANGED messages
    /\ UNCHANGED <<script, error, outfiles, stsvars, margs, replicate, fi, ji,
                   cubereads, replicas>>

\* stm-plot.py 116-121: one value becomes [args.replicate, args.replicate];
\* any other length but 2 is reported, and the script goes on.
CheckReplicate ==
    /\ script = "stm" /\ pc = "replicate"
    /\ replicate' = NormalizedReplicate(replicate)
    /\ messages' = IF ReplicateInvalid(replicate)
                   THEN Append(messages, Msg("Invalid replicas", 0, 0))
                   ELSE messages
    /\ fi' = 1
    /\ pc' = "files"
    /\ UNCHANGED <<script, error, outfiles, stsvars, margs, jobs, ji,
                   cubereads, replicas>>

\* stm-plot.py 124-126: the next cube file is read with its data.
ReadStmCube ==
    /\ script = "stm" /\ pc = "files"
    /\ IF margs.stmcubes = 0
       THEN /\ pc' = "crashed"
            /\ error' = "TypeError: stmcubes"
            /\ UNCHANGED <<messages, cubereads, ji>>
       ELSE /\ fi <= margs.stmcubes
            /\ messages' = Append(messages, Msg("Reading", 0, 0))
            /\ cubereads' = cubereads + 1
            /\ ji' = 1
            /\ pc' = "extract"
            /\ UNCHANGED error
    /\ UNCHANGED <<script, outfiles, stsvars, margs, replicate, jobs, fi,
                   replicas>>

\* stm-plot.py 124: the loop over the cube files ends, and the script.
StmDone ==
    /\ script = "stm" /\ pc = "files"
    /\ margs.stmcubes # 0 /\ fi > margs.stmcubes
    /\ pc' = "done"
    /\ UNCHANGED <<script, error, messages, outfiles, stsvars, stmvars>>

\* stm-plot.py 128-145: the plane of the job, with replica=args.replicate.
\* What the extraction does with a factor that is no pair of integers is
\* not in the script: it returns or raises.
ExtractPlane ==
    /\ script = "stm" /\ pc = "extract"
    /\ replicas' = Append(replicas, [site |-> "extract", rep |-> replicate])
    /\ \E ok \in IF PairOfInts(replicate) THEN {TRUE} ELSE BOOLEAN :
          IF ok THEN pc' = "save" /\ UNCHANGED error
          ELSE pc' = "crashed" /\ error' = "Error: extraction"
    /\ UNCHANGED <<script, messages, outfiles, stsvars, margs, replicate,
                   jobs, fi, ji, cubereads>>

\* The loop position after the job at (f, j).
NextJob(f, j) ==
    IF j < Len(jobs) THEN [fi |-> f, ji |-> j + 1, pc |-> "extract"]
    ELSE [fi |-> f + 1, ji |-> j, pc |-> "files"]

\* stm-plot.py 147-165: the plane is written in the chosen format.
SavePlane ==
    /\ script = "stm" /\ pc = "save"
    /\ LET base == [cube |-> fi, job |-> ji]
       IN  IF margs.format = "plain"
           THEN /\ outfiles' = outfiles \cup {<<base, ".dat">>}
                /\ messages' = Append(messages, Msg("Writing", 0, 0))
           ELSE IF margs.format = "igor"
           THEN /\ outfiles' = outfiles \cup {<<base, ".itx">>}
                /\ messages' = Append(messages, Msg("Writing", 0, 0))
           ELSE /\ messages' = Append(messages, Msg("Unknown format", 0, 0))
                /\ UNCHANGED outfiles
    /\ IF margs.plot
       THEN pc' = "plot" /\ UNCHANGED <<fi, ji>>
       ELSE /\ pc' = NextJob(fi, ji).pc
            /\ fi' = NextJob(fi, ji).fi
            /\ ji' = NextJob(fi, ji).ji
    /\ UNCHANGED <<script, error, stsvars, margs, replicate, jobs, cubereads,
                   replicas>>

\* stm-plot.py 167-204: the plane is resampled with rep=args.replicate,
\* plotted, and the resampled data saved.
PlotPlane ==
    /\ script = "stm" /\ pc = "plot"
    /\ messages' = Append(messages, Msg("Plotting", 0, 0))
    /\ replicas' = Append(replicas, [site |-> "resample", rep |-> replicate])
    /\ IF resample(replicate) = "ok"
       THEN /\ outfiles' = outfiles \cup {<<[cube |-> fi, job |-> ji], ".png">>,
                                          <<[cube |-> fi, job |-> ji], ".res">>}
            /\ pc' = NextJob(fi, ji).pc
            /\ fi' = NextJob(fi, ji).fi
            /\ ji' = NextJob(fi, ji).ji
            /\ UNCHANGED error
       ELSE /\ pc' = "crashed"
            /\ error' = resample(replicate)
            /\ UNCHANGED <<outfiles, fi, ji>>
    /\ UNCHANGED <<script, stsvars, margs, replicate, jobs, cubereads>>

NextStm ==
    \/ MakeJobs
    \/ CheckReplicate
    \/ ReadStmCube
    \/ StmDone
    \/ ExtractPlane
    \/ SavePlane
    \/ PlotPlane

Init == InitSts \/ InitStm
Next == NextSts \/ NextStm
Spec == Init /\ [][Next]_vars

\* ================================================================ claims

\* The half width of the energy window of a level, sigma * nsigmacut.
Cut == args.sigma * args.nsigmacut

\* The level loop of sts.py has ended.
Matched == script = "sts" /\ pc \notin {"headers", "match"}

\* The accumulation loop of sts.py has ended and line 195 was reached.
Looped == script = "sts" /\ pc = "crashed" /\ error = "NameError: sts"

\* The numpy indices of the bins that hold a term of the plane of cube c.
BinsOf(c) ==
    {i \in 0..(Len(stscube.data) - 1) :
        \E t \in BagToSet(stscube.data[i + 1]) : t.plane.cube = c}

\* The volume that holds, for every cube of the set S, its own plane at its
\* own energy, over the bins lines 180-186 give for that energy: a sum over
\* a set, with no order.
RECURSIVE SumOver(_, _)
SumOver(data, S) ==
    IF S = {} THEN data
    ELSE LET c == CHOOSE x \in S : TRUE
             e == cubes[c].energy
         IN  SumOver(AddPlane(data, ArgMinAbs(zrange, e - Cut),
                              ArgMinAbs(zrange, e + Cut),
                              ExtractedPlane(c, args), e),
                     S \ {c})

Zeros == [i \in 1..Len(stscube.data) |-> EmptyBag]

\* C1: a run of the accumulation loop ends with the volume that is the sum
\* over the set of required (cube, energy) pairs, whatever planes are cached
\* (it does not stop in the loop on an unbound name, and what it has summed
\* does not depend on which cubes came before).
C1_OrderIndependent ==
    (script = "sts" /\ pc = "crashed"
        /\ error \in {"NameError: sts", "NameError: tmp"})
    => /\ error = "NameError: sts"
       /\ stscube.data = SumOver(Zeros, Range(required_cubes))

\* C2: once the plane of a required cube with level energy E has been
\* accumulated, the bins that hold it are exactly the bins i of [0, nbins)
\* with E - sigma*nsigmacut <= emin + i*de <= E + sigma*nsigmacut, and the
\* accumulation raised no index error.
C2_WindowBins ==
    (script = "sts" /\ stscube.def)
    => /\ error # "IndexError: stscube.data"
       /\ \A j \in 1..(k - 1) :
             LET c == required_cubes[j]
                 E == cubes[c].energy
             IN  BinsOf(c) =
                     {i \in 0..(Len(stscube.data) - 1) :
                         /\ E - Cut <= args.emin + i * args.de
                         /\ args.emin + i * args.de <= E + Cut}

\* C3: a second run of sts.py, after a first run that went through the whole
\* accumulation loop (so that every required plane file exists), goes
\* through the loop too, ends with the volume of the first run, and reads no
\* cube file with its data.
C3_SecondRunSame ==
    (script = "sts" /\ run = 2 /\ prev.looped /\ pc = "crashed")
    => /\ error = "NameError: sts"
       /\ stscube.data = prev.data
       /\ fullreads = <<>>

\* C4: after the level loop has handled the first m - 1 levels,
\* required_cubes holds, in the order of the levels, for each handled level
\* whose energy lies in [emin - sigma*nsigmacut, emax + sigma*nsigmacut] and
\* that has a cube file with wfn = its index and spin = its spin + 1, the
\* first such cube file, tagged with the energy of the level, and nothing
\* else.
C4_RequiredCubesMatch ==
    (script = "sts" /\ pc # "headers")
    => LET inw(l) == /\ l.energy >= args.emin - args.sigma * args.nsigmacut
                     /\ l.energy <= args.emax + args.sigma * args.nsigmacut
           tag(c, l) == files[c].wfn = l.index /\ files[c].spin = l.spin + 1
           first(c, l) == tag(c, l) /\ \A d \in 1..(c - 1) : ~tag(d, l)
           hits == {j \in 1..(m - 1) :
                       /\ inw(LevelOrder[j])
                       /\ \E c \in 1..Len(files) : tag(c, LevelOrder[j])}
       IN  /\ Len(required_cubes) = Cardinality(hits)
           /\ \A i \in 1..Len(required_cubes) :
                 \E j \in hits :
                    /\ Cardinality({h \in hits : h <= j}) = i
                    /\ first(required_cubes[i], LevelOrder[j])
                    /\ cubes[required_cubes[i]].energy = LevelOrder[j].energy

\* C4 witness: two levels were handled, one of them gave a cube and the other
\* none, and of two cube files with the same tags the first was taken.
C4_Witness ==
    /\ script = "sts" /\ pc = "shape"
    /\ Len(LevelOrder) = 2 /\ Len(required_cubes) = 1
    /\ Len(files) = 2 /\ files[1] = files[2]
    /\ required_cubes[1] = 1

\* C5: when a level inside the window has no matching cube file, every such
\* level is reported as missing and the run goes on past line 142.
C5_MissingNonFatal ==
    LET lost == {j \in 1..Len(LevelOrder) :
                    /\ LevelOrder[j].energy >= args.emin - Cut
                    /\ LevelOrder[j].energy <= args.emax + Cut
                    /\ \A c \in 1..Len(files) :
                          ~(files[c].wfn = LevelOrder[j].index
                            /\ files[c].spin = LevelOrder[j].spin + 1)}
    IN  (Matched /\ lost # {})
        => /\ \A j \in lost :
                 Msg("Missing", LevelOrder[j].spin + 1, LevelOrder[j].energy)
                     \in Range(messages)
           /\ error # "IndexError: required_cubes[0]"

\* C6: a run with at least one required cube whose accumulation loop has
\* handled every required cube ends with the spectral volume written to the
\* output file.
C6_WrittenOnce ==
    (script = "sts" /\ pc \in {"done", "crashed"}
        /\ required_cubes # <<>> /\ k > Len(required_cubes))
    => pc = "done" /\ "sts.cube" \in outfiles

\* C7 (as stated): while a plane is accumulated, no object holds the full
\* data of a cube file.
C7_ReleasedAfterExtraction ==
    (script = "sts" /\ pc = "accum") => heap = {}

\* C7 (amended): at any time at most one object holds the full data of a
\* cube file; the cube read for a plane stays held through tmp while the
\* plane is accumulated and in the iterations after it.
C7_AtMostOneResident ==
    /\ Cardinality(heap) <= 1
    /\ (script = "sts" /\ tmp.def /\ pc \in {"accum", "loop"})
       => [owner |-> "tmp", cube |-> tmp.cube] \in heap

\* C7 witness: the plane of a later, cached cube is accumulated while the
\* data of the cube of an earlier iteration is still held.
C7_Witness ==
    /\ script = "sts" /\ pc = "accum" /\ k >= 2
    /\ tmp.def /\ tmp.cube # required_cubes[k]
    /\ heap = {[owner |-> "tmp", cube |-> tmp.cube]}

\* C8: with a --replicate of neither 1 nor 2 values, the script has stopped
\* once line 121 is passed, and has read no cube file, extracted no plane
\* and written no file.
C8_RejectedBeforeIO ==
    (script = "stm" /\ pc \notin {"jobs", "replicate"}
        /\ ~margs.replicate.none
        /\ Len(margs.replicate.vals) \notin {1, 2})
    => /\ pc \in {"done", "crashed"}
       /\ cubereads = 0
       /\ replicas = <<>>
       /\ outfiles = {}

\* C9: with --replicate n, every replication factor handed to the plane
\* extraction and to resample is the pair (n, n).
C9_SingleValueBoth ==
    \A n \in ReplicaValues :
        (script = "stm" /\ margs.replicate = PyList(<<n>>))
        => \A i \in 1..Len(replicas) : replicas[i].rep = PyList(<<n, n>>)

\* C10: a run with --normalize that reaches the writing of the volume has
\* divided the volume by its sum or has reported that normalization is not
\* implemented.
C10_NormalizeNotSilent ==
    (Looped /\ args.normalize)
    => \/ stscube.norm
       \/ Msg("Normalization not implemented", 0, 0) \in Range(messages)
====
